---- MODULE Spec2Model ----
(***************************************************************************)
(* A model of the URL helpers of the httpx Rust extension:                 *)
(*   src/src/urls.rs          QueryParams and QueryParamsKeysIterator      *)
(*   src/src/urlparse.rs      normalize_path, percent_encoded, quote       *)
(*   src/src/models/utils.rs  unquote                                      *)
(* Strings are sequences of one-character strings, so that splitting,      *)
(* joining, slicing and percent-encoding are computed byte by byte.        *)
(***************************************************************************)
EXTENDS Integers, Sequences, FiniteSets, Bags, TLC

VARIABLES
    objs,          \* the QueryParams instances alive, in creation order
    last,          \* the last call made on an instance of objs
    iters,         \* the QueryParamsKeysIterator instances alive
    src,           \* the argument a QueryParams is constructed from
    q,             \* QueryParams::new(src)
    text,          \* q.to_string()
    q2,            \* QueryParams::new(text)
    lhs,           \* receiver of __eq__
    rhs,           \* argument of __eq__
    equal,         \* result of lhs.__eq__(rhs)
    string,        \* first argument of quote
    safe,          \* second argument of quote
    quoted,        \* result of quote(string, safe)
    value,         \* argument of unquote
    unquoted,      \* result of unquote(value)
    path,          \* argument of normalize_path
    normalized,    \* normalize_path(path)
    renormalized   \* normalize_path(normalize_path(path))

vars == <<objs, last, iters, src, q, text, q2, lhs, rhs, equal,
          string, safe, quoted, value, unquoted, path, normalized, renormalized>>

heapVars == <<objs, last, iters>>
strVars == <<src, q, text, q2>>
eqVars == <<lhs, rhs, equal>>
quoteVars == <<string, safe, quoted>>
unquoteVars == <<value, unquoted>>
pathVars == <<path, normalized, renormalized>>

----------------------------------------------------------------------------
(* Bounds of the model.                                                    *)

MaxObjs == 3
MaxVals == 2
MaxPairs == 2
MaxIterObjs == 2
MaxIters == 2
MaxExtraNext == 2
MaxStrLen == 4
MaxQuoteLen == 4
MaxUnquoteLen == 4
MaxPathLen == 5

----------------------------------------------------------------------------
(* Bytes and strings.                                                      *)

ASCII ==
  << " ", "!", "\"", "#", "$", "%", "&", "'", "(", ")", "*", "+", ",", "-", ".", "/",
     "0", "1", "2", "3", "4", "5", "6", "7", "8", "9", ":", ";", "<", "=", ">", "?",
     "@", "A", "B", "C", "D", "E", "F", "G", "H", "I", "J", "K", "L", "M", "N", "O",
     "P", "Q", "R", "S", "T", "U", "V", "W", "X", "Y", "Z", "[", "\\", "]", "^", "_",
     "GRAVE", "a", "b", "c", "d", "e", "f", "g", "h", "i", "j", "k", "l", "m", "n", "o",
     "p", "q", "r", "s", "t", "u", "v", "w", "x", "y", "z", "{", "|", "}", "~" >>

\* The byte value of a printable ASCII character (the grave accent, byte 96,
\* is held by a placeholder: no string of the model contains it).
Byte(c) == 31 + (CHOOSE n \in 1..Len(ASCII) : ASCII[n] = c)

HexDigits ==
  << "0", "1", "2", "3", "4", "5", "6", "7", "8", "9", "A", "B", "C", "D", "E", "F" >>

\* format!("%{:02X}", b)
PercentHex(b) == << "%", HexDigits[(b \div 16) + 1], HexDigits[(b % 16) + 1] >>

IsUpper(c) == Byte(c) >= Byte("A") /\ Byte(c) <= Byte("Z")
IsLower(c) == Byte(c) >= Byte("a") /\ Byte(c) <= Byte("z")
IsDigit(c) == Byte(c) >= Byte("0") /\ Byte(c) <= Byte("9")

\* u8::is_ascii_hexdigit
is_ascii_hexdigit(c) ==
    \/ IsDigit(c)
    \/ Byte(c) >= Byte("A") /\ Byte(c) <= Byte("F")
    \/ Byte(c) >= Byte("a") /\ Byte(c) <= Byte("f")

Contains(s, c) == \E n \in 1..Len(s) : s[n] = c

RECURSIVE Concat(_)
\* The concatenation of a sequence of strings.
Concat(ss) == IF ss = <<>> THEN <<>> ELSE Head(ss) \o Concat(Tail(ss))

RECURSIVE JoinLeading(_, _)
\* A join that writes the separator before every piece instead of between pieces.
JoinLeading(ss, sep) ==
    IF ss = <<>> THEN <<>> ELSE <<sep>> \o Head(ss) \o JoinLeading(Tail(ss), sep)

RECURSIVE Join(_, _)
\* [String]::join(sep)
Join(ss, sep) ==
    IF ss = <<>> THEN <<>>
    ELSE IF Len(ss) = 1 THEN Head(ss)
    ELSE Head(ss) \o <<sep>> \o Join(Tail(ss), sep)

RECURSIVE SplitFrom(_, _, _)
\* The pieces of s between occurrences of sep, cur being the piece in progress.
SplitFrom(s, sep, cur) ==
    IF s = <<>> THEN <<cur>>
    ELSE IF Head(s) = sep THEN <<cur>> \o SplitFrom(Tail(s), sep, <<>>)
    ELSE SplitFrom(Tail(s), sep, Append(cur, Head(s)))

\* str::split(sep): n occurrences of sep give n + 1 pieces, empty ones included.
Split(s, sep) == SplitFrom(s, sep, <<>>)

\* All strings over alphabet of length at most n.
StringsUpTo(alphabet, n) == UNION { [1..m -> alphabet] : m \in 0..n }

----------------------------------------------------------------------------
(* IndexMap<String, Vec<String>>: a sequence of entries with distinct keys. *)

Entry(k, v) == [k |-> k, v |-> v]

ContainsKey(m, k) == \E n \in 1..Len(m) : m[n].k = k

IndexOf(m, k) == CHOOSE n \in 1..Len(m) : m[n].k = k

\* IndexMap::insert: an existing key keeps its position and gets the new value.
Insert(m, k, v) ==
    IF ContainsKey(m, k) THEN [m EXCEPT ![IndexOf(m, k)].v = v]
    ELSE Append(m, Entry(k, v))

\* IndexMap::entry(k).or_default().push(x)
EntryPush(m, k, x) ==
    IF ContainsKey(m, k) THEN [m EXCEPT ![IndexOf(m, k)].v = Append(@, x)]
    ELSE Append(m, Entry(k, <<x>>))

\* IndexMap::shift_remove: the remaining entries keep their relative order.
ShiftRemove(m, k) == SelectSeq(m, LAMBDA e : e.k # k)

RECURSIVE ExtendConcat(_, _)
\* An extend that appends to the value list of a key already present.
ExtendConcat(m, other) ==
    IF other = <<>> THEN m
    ELSE ExtendConcat(
           IF ContainsKey(m, Head(other).k)
           THEN [m EXCEPT ![IndexOf(m, Head(other).k)].v = @ \o Head(other).v]
           ELSE Append(m, Head(other)),
           Tail(other))

RECURSIVE Extend(_, _)
\* IndexMap::extend: insert every entry of other, in other's order.
Extend(m, other) ==
    IF other = <<>> THEN m
    ELSE Extend(Insert(m, Head(other).k, Head(other).v), Tail(other))

----------------------------------------------------------------------------
(* Python values handed to the extension.                                  *)

PyStr(s) == [kind |-> "str", val |-> s]
PyBytes(s) == [kind |-> "bytes", val |-> s]
PyTrue == [kind |-> "true", val |-> <<>>]
PyFalse == [kind |-> "false", val |-> <<>>]
PyNone == [kind |-> "none", val |-> <<>>]
PyList(items) == [kind |-> "list", val |-> items]
PyDict(entries) == [kind |-> "dict", val |-> entries]
PyQueryParams(ref) == [kind |-> "QueryParams", val |-> ref]

primitive_value_to_str(v) ==
    IF v.kind = "true" THEN <<"t", "r", "u", "e">>
    ELSE IF v.kind = "false" THEN <<"f", "a", "l", "s", "e">>
    ELSE IF v.kind = "none" THEN <<>>
    ELSE v.val

urlencode_byte(c) ==
    IF IsUpper(c) \/ IsLower(c) \/ IsDigit(c) \/ c \in {"-", "_", ".", "~"} THEN <<c>>
    ELSE IF c = " " THEN <<"+">>
    ELSE PercentHex(Byte(c))

urlencode(s) == Concat([n \in 1..Len(s) |-> urlencode_byte(s[n])])

----------------------------------------------------------------------------
(* QueryParams.                                                            *)

QueryParams(params) == [params |-> params]

keys(self) == [n \in 1..Len(self.params) |-> self.params[n].k]

RECURSIVE FirstValues(_)
FirstValues(m) ==
    IF m = <<>> THEN <<>>
    ELSE (IF Head(m).v # <<>> THEN <<Head(Head(m).v)>> ELSE <<>>) \o FirstValues(Tail(m))

values(self) == FirstValues(self.params)

RECURSIVE FirstItems(_)
FirstItems(m) ==
    IF m = <<>> THEN <<>>
    ELSE (IF Head(m).v # <<>> THEN << <<Head(m).k, Head(Head(m).v)>> >> ELSE <<>>)
         \o FirstItems(Tail(m))

items(self) == FirstItems(self.params)

RECURSIVE Flatten(_)
Flatten(m) ==
    IF m = <<>> THEN <<>>
    ELSE [n \in 1..Len(Head(m).v) |-> <<Head(m).k, Head(m).v[n]>>] \o Flatten(Tail(m))

multi_items(self) == Flatten(self.params)

get_list(self, key) ==
    IF ContainsKey(self.params, key) THEN self.params[IndexOf(self.params, key)].v
    ELSE <<>>

set(self, key, v) == QueryParams(Insert(self.params, key, <<primitive_value_to_str(v)>>))

add(self, key, v) == QueryParams(EntryPush(self.params, key, primitive_value_to_str(v)))

remove(self, key) == QueryParams(ShiftRemove(self.params, key))

__contains__(self, key) == ContainsKey(self.params, key)

__len__(self) == Len(self.params)

RECURSIVE PushPairs(_, _)
\* for (key, value) in pairs { params.entry(key).or_default().push(value) }
PushPairs(m, pairs) ==
    IF pairs = <<>> THEN m
    ELSE PushPairs(EntryPush(m, Head(pairs)[1], Head(pairs)[2]), Tail(pairs))

RECURSIVE ParsePairs(_, _)
\* The loop of from_str over the pieces of s.split('&').
ParsePairs(m, pieces) ==
    IF pieces = <<>> THEN m
    ELSE LET pair == Split(Head(pieces), "=")
             next == IF Len(pair) = 2 THEN EntryPush(m, pair[1], pair[2])
                     ELSE IF Len(pair) = 1 THEN EntryPush(m, pair[1], <<>>)
                     ELSE m
         IN  ParsePairs(next, Tail(pieces))

from_str(s) ==
    IF s = <<>> THEN QueryParams(<<>>)
    ELSE QueryParams(ParsePairs(<<>>, Split(s, "&")))

RECURSIVE DictEntries(_, _)
\* The loop of from_pydict over the entries of the dict.
DictEntries(m, entries) ==
    IF entries = <<>> THEN m
    ELSE LET key == Head(entries)[1]
             v == Head(entries)[2]
             next == IF v.kind = "list"
                     THEN Insert(m, key,
                                 [n \in 1..Len(v.val) |-> primitive_value_to_str(v.val[n])])
                     ELSE EntryPush(m, key, primitive_value_to_str(v))
         IN  DictEntries(next, Tail(entries))

from_pydict(dict) == QueryParams(DictEntries(<<>>, dict.val))

\* heap: the instances a PyQueryParams argument may refer to.
from_pyany(heap, obj) ==
    IF obj.kind = "none" THEN QueryParams(<<>>)
    ELSE IF obj.kind = "QueryParams" THEN QueryParams(heap[obj.val].params)
    ELSE IF obj.kind = "str" THEN from_str(obj.val)
    ELSE IF obj.kind = "bytes" THEN from_str(obj.val)
    ELSE IF obj.kind = "list" THEN QueryParams(PushPairs(<<>>, obj.val))
    ELSE from_pydict(obj)

\* merge(params): params is None (no argument) or a construction source.
merge(heap, self, params) ==
    IF params.kind # "none"
    THEN QueryParams(Extend(self.params, from_pyany(heap, params).params))
    ELSE self

\* impl Display for QueryParams
to_string(self) ==
    LET mi == multi_items(self)
    IN  Join([n \in 1..Len(mi) |-> urlencode(mi[n][1]) \o <<"=">> \o urlencode(mi[n][2])], "&")

\* QueryParams::new(*args, **kwargs) with one positional argument, or none.
new(heap, arg) == from_pyany(heap, arg)

\* QueryParams::__eq__ builds this from the two flattened pair lists.
StrLess(a, b) ==
    \E n \in 1..(Len(b)) :
        /\ \A m \in 1..(n - 1) : m <= Len(a) /\ a[m] = b[m]
        /\ \/ Len(a) = n - 1
           \/ Len(a) >= n /\ Byte(a[n]) < Byte(b[n])

\* Ord for (String, String)
PairLess(x, y) == StrLess(x[1], y[1]) \/ (x[1] = y[1] /\ StrLess(x[2], y[2]))

RECURSIVE InsertSorted(_, _)
InsertSorted(sorted, x) ==
    IF sorted = <<>> THEN <<x>>
    ELSE IF PairLess(x, Head(sorted)) THEN <<x>> \o sorted
    ELSE <<Head(sorted)>> \o InsertSorted(Tail(sorted), x)

RECURSIVE Sort(_)
\* Vec::sort
Sort(xs) == IF xs = <<>> THEN <<>> ELSE InsertSorted(Sort(Tail(xs)), Head(xs))

\* An equality that compares the flattened pair lists as they are.
EqUnsorted(self, other) == multi_items(self) = multi_items(other)

\* QueryParams::__eq__ with another QueryParams
__eq__(self, other) == Sort(multi_items(self)) = Sort(multi_items(other))

----------------------------------------------------------------------------
(* QueryParamsKeysIterator.                                                *)

Some(x) == [some |-> TRUE, val |-> x]
None == [some |-> FALSE, val |-> <<>>]

\* QueryParams::__iter__
__iter__(self) == [params |-> keys(self)]

\* A next that takes from the back of the snapshot.
NextFromBack(it) ==
    IF it.params = <<>> THEN [it |-> it, ret |-> None]
    ELSE [it |-> [params |-> SubSeq(it.params, 1, Len(it.params) - 1)],
          ret |-> Some(it.params[Len(it.params)])]

\* QueryParamsKeysIterator::__next__: the iterator after the call, and what it returns.
__next__(it) ==
    IF it.params = <<>> THEN [it |-> it, ret |-> None]
    ELSE [it |-> [params |-> Tail(it.params)], ret |-> Some(Head(it.params))]

----------------------------------------------------------------------------
(* urlparse.rs: normalize_path, percent_encoded, quote.                    *)

RECURSIVE NormalizeComponents(_, _)
\* The loop of normalize_path over the components of the path.
NormalizeComponents(components, normalized_components) ==
    IF components = <<>> THEN normalized_components
    ELSE LET component == Head(components)
             next == IF component = <<".">> THEN normalized_components
                     ELSE IF component = <<".", ".">>
                     THEN IF normalized_components # <<>> /\ normalized_components # << <<>> >>
                          THEN SubSeq(normalized_components, 1, Len(normalized_components) - 1)
                          ELSE normalized_components
                     ELSE Append(normalized_components, component)
         IN  NormalizeComponents(Tail(components), next)

\* A normalize_path that writes "/" before every retained component.
NormalizePathLeadingSlash(p) ==
    IF ~ Contains(p, ".") THEN p
    ELSE JoinLeading(NormalizeComponents(Split(p, "/"), <<>>), "/")

normalize_path(p) ==
    IF ~ Contains(p, ".") THEN p
    ELSE Join(NormalizeComponents(Split(p, "/"), <<>>), "/")

UNRESERVED_CHARS ==
    <<"A", "B", "C", "D", "E", "F", "G", "H", "I", "J", "K", "L", "M",
       "N", "O", "P", "Q", "R", "S", "T", "U", "V", "W", "X", "Y", "Z",
       "a", "b", "c", "d", "e", "f", "g", "h", "i", "j", "k", "l", "m",
       "n", "o", "p", "q", "r", "s", "t", "u", "v", "w", "x", "y", "z",
       "0", "1", "2", "3", "4", "5", "6", "7", "8", "9", "-", ".", "_", "~">>

percent_encoded(s, safeChars) ==
    Concat([n \in 1..Len(s) |->
              IF Contains(UNRESERVED_CHARS, s[n]) \/ Contains(safeChars, s[n]) THEN << s[n] >>
              ELSE PercentHex(Byte(s[n]))])

\* A check that looks at the first digit of the triplet only.
IsPercentEncodedFirstDigit(s) == Len(s) = 3 /\ s[1] = "%" /\ is_ascii_hexdigit(s[2])

is_percent_encoded(s) ==
    Len(s) = 3 /\ s[1] = "%" /\ is_ascii_hexdigit(s[2]) /\ is_ascii_hexdigit(s[3])

RECURSIVE QuoteLoop(_, _, _, _, _)
\* The while loop of quote and the flush after it; i and start count from 0.
QuoteLoop(s, safeChars, i, start, result) ==
    IF i < Len(s)
    THEN IF s[i + 1] = "%" /\ i + 2 < Len(s) /\ is_percent_encoded(SubSeq(s, i + 1, i + 3))
         THEN QuoteLoop(s, safeChars, i + 3, i + 3,
                        (IF start < i
                         THEN result \o percent_encoded(SubSeq(s, start + 1, i), safeChars)
                         ELSE result) \o SubSeq(s, i + 1, i + 3))
         ELSE QuoteLoop(s, safeChars, i + 1, start, result)
    ELSE IF start < Len(s)
         THEN result \o percent_encoded(SubSeq(s, start + 1, Len(s)), safeChars)
         ELSE result

quote(s, safeChars) == QuoteLoop(s, safeChars, 0, 0, <<>>)

----------------------------------------------------------------------------
(* models/utils.rs: unquote.                                               *)

Ok(x) == [st |-> "ok", val |-> x]
Panic == [st |-> "panic", val |-> <<>>]

starts_with(s, c) == Len(s) >= 1 /\ s[1] = c
ends_with(s, c) == Len(s) >= 1 /\ s[Len(s)] = c

\* &s[from..to]: panics when from > to or to > len.
Slice(s, from, to) ==
    IF from > to \/ to > Len(s) THEN Panic ELSE Ok(SubSeq(s, from + 1, to))

unquote(v) ==
    IF starts_with(v, "\"") /\ ends_with(v, "\"") THEN Slice(v, 1, Len(v) - 1)
    ELSE IF starts_with(v, "'") /\ ends_with(v, "'") THEN Slice(v, 1, Len(v) - 1)
    ELSE Ok(v)

----------------------------------------------------------------------------
(* The arguments the calls are made with.                                  *)

Keys == { <<"a">>, <<"b">> }
Vals == { <<"1">>, <<"2">> }

\* Values handed to set and add.
PyVals == { PyStr(<<"9">>), PyTrue }

SeqsUpTo(S, n) == UNION { [1..m -> S] : m \in 0..n }

PairLists == { PyList(l) : l \in SeqsUpTo(Keys \X Vals, MaxPairs) }

\* The values of a key -> value(s) mapping: a scalar, or a list (possibly empty).
DictVals ==
    { PyStr(<<"1">>), PyNone } \cup { PyList(l) : l \in SeqsUpTo({ PyStr(<<"2">>) }, MaxVals) }

Dicts ==
    { PyDict(<<>>) }
      \cup { PyDict(<< <<k, v>> >>) : k \in Keys, v \in DictVals }
      \cup { PyDict(<< <<k1, v1>>, <<k2, v2>> >>) :
               k1 \in { <<"a">> }, k2 \in { <<"b">> }, v1 \in DictVals, v2 \in DictVals }

ExampleQuery == <<"a", "=", "1", "&", "a", "=", "2", "&", "b", "=">>

Sources ==
    { PyNone, PyStr(<<>>), PyStr(ExampleQuery), PyBytes(<<"b", "=", "2">>) }
      \cup PairLists \cup Dicts

\* What merge is called with, besides the instances alive.
MergeSources == { PyNone, PyList(<< << <<"a">>, <<"9">> >> >>), PyDict(<< << <<"b">>, PyTrue >> >>) }

----------------------------------------------------------------------------
(* Calls on the instances alive.                                           *)

Call(op, self, key, arg, ret) == [op |-> op, self |-> self, key |-> key, arg |-> arg, ret |-> ret]

HeapIdle == objs = <<>> /\ last = Call("none", 0, <<>>, PyNone, 0) /\ iters = <<>>
StrIdle == src = PyNone /\ q = None /\ text = None /\ q2 = None
EqIdle == lhs = QueryParams(<<>>) /\ rhs = QueryParams(<<>>) /\ equal = None
QuoteIdle == string = <<>> /\ safe = <<>> /\ quoted = None
UnquoteIdle == value = <<>> /\ unquoted = None
PathIdle == path = <<>> /\ normalized = None /\ renormalized = None

notHeap == <<strVars, eqVars, quoteVars, unquoteVars, pathVars>>

\* A set that writes the change into the receiver as well.
CallSetInPlace(i, key, v) ==
    /\ Len(objs) < MaxObjs
    /\ objs' = Append([objs EXCEPT ![i] = set(objs[i], key, v)], set(objs[i], key, v))
    /\ last' = Call("set", i, key, v, Len(objs) + 1)
    /\ UNCHANGED <<iters, notHeap>>

CallSet(i, key, v) ==
    /\ Len(objs) < MaxObjs
    /\ objs' = Append(objs, set(objs[i], key, v))
    /\ last' = Call("set", i, key, v, Len(objs) + 1)
    /\ UNCHANGED <<iters, notHeap>>

CallAdd(i, key, v) ==
    /\ Len(objs) < MaxObjs
    /\ Len(get_list(objs[i], key)) < MaxVals
    /\ objs' = Append(objs, add(objs[i], key, v))
    /\ last' = Call("add", i, key, v, Len(objs) + 1)
    /\ UNCHANGED <<iters, notHeap>>

CallRemove(i, key) ==
    /\ Len(objs) < MaxObjs
    /\ objs' = Append(objs, remove(objs[i], key))
    /\ last' = Call("remove", i, key, PyNone, Len(objs) + 1)
    /\ UNCHANGED <<iters, notHeap>>

CallMerge(i, params) ==
    /\ Len(objs) < MaxObjs
    /\ objs' = Append(objs, merge(objs, objs[i], params))
    /\ last' = Call("merge", i, <<>>, params, Len(objs) + 1)
    /\ UNCHANGED <<iters, notHeap>>

MergeArgs == MergeSources \cup { PyQueryParams(j) : j \in 1..Len(objs) }

Init ==
    /\ \E arg \in Sources : objs = << new(<<>>, arg) >>
    /\ last = Call("new", 0, <<>>, PyNone, 1)
    /\ iters = <<>>
    /\ StrIdle /\ EqIdle /\ QuoteIdle /\ UnquoteIdle /\ PathIdle

Next ==
    \/ \E i \in 1..Len(objs), key \in Keys, v \in PyVals : CallSet(i, key, v)
    \/ \E i \in 1..Len(objs), key \in Keys, v \in PyVals : CallAdd(i, key, v)
    \/ \E i \in 1..Len(objs), key \in Keys : CallRemove(i, key)
    \/ \E i \in 1..Len(objs), params \in MergeArgs : CallMerge(i, params)

Spec == Init /\ [][Next]_vars

----------------------------------------------------------------------------
(* Iteration over the keys of an instance, interleaved with mutator calls. *)

\* The model's record of an iterator: the object's own field (params), and for
\* the properties the instance it was requested from (of), its keys at that
\* moment (made) and everything __next__ has returned so far (out).
Iterator(it, of, made, out) == [params |-> it.params, of |-> of, made |-> made, out |-> out]

CallIter(i) ==
    /\ Len(iters) < MaxIters
    /\ iters' = Append(iters, Iterator(__iter__(objs[i]), i, keys(objs[i]), <<>>))
    /\ UNCHANGED <<objs, last, notHeap>>

CallNext(t) ==
    /\ Len(iters[t].out) < Len(iters[t].made) + MaxExtraNext
    /\ LET r == __next__([params |-> iters[t].params])
       IN  iters' = [iters EXCEPT ![t] =
                       Iterator(r.it, iters[t].of, iters[t].made, Append(iters[t].out, r.ret))]
    /\ UNCHANGED <<objs, last, notHeap>>

\* The instances iterated over: two keys, one key, none.
IterRoots ==
    { PyList(<< << <<"a">>, <<"1">> >>, << <<"b">>, <<"2">> >> >>),
      PyList(<< << <<"b">>, <<"1">> >> >>),
      PyNone }

InitIter ==
    /\ \E arg \in IterRoots : objs = << new(<<>>, arg) >>
    /\ last = Call("new", 0, <<>>, PyNone, 1)
    /\ iters = <<>>
    /\ StrIdle /\ EqIdle /\ QuoteIdle /\ UnquoteIdle /\ PathIdle

NextIter ==
    \/ \E i \in 1..Len(objs) : CallIter(i)
    \/ \E t \in 1..Len(iters) : CallNext(t)
    \/ Len(objs) < MaxIterObjs /\ \E i \in 1..Len(objs), key \in Keys : CallSet(i, key, PyTrue)
    \/ Len(objs) < MaxIterObjs /\ \E i \in 1..Len(objs), key \in Keys : CallAdd(i, key, PyTrue)
    \/ Len(objs) < MaxIterObjs /\ \E i \in 1..Len(objs), key \in Keys : CallRemove(i, key)
    \/ Len(objs) < MaxIterObjs /\ \E i \in 1..Len(objs), j \in 1..Len(objs) :
                                    CallMerge(i, PyQueryParams(j))

SpecIter == InitIter /\ [][NextIter]_vars

----------------------------------------------------------------------------
(* Construction from a source, rendering, and parsing the rendering back.  *)

StrAlphabet == { "a", "1", "=", "&" }

\* Keys and values of the pair lists that are rendered and parsed back.
TextKeys == { <<>>, <<"a">>, <<" ">>, <<"=">>, <<"a", "/">> }
TextVals == { <<>>, <<"1">>, <<"a", " ", "1">> }

StrSources ==
    { PyStr(s) : s \in StringsUpTo(StrAlphabet, MaxStrLen) }
      \cup { PyStr(ExampleQuery) }
      \cup { PyList(l) : l \in SeqsUpTo(TextKeys \X TextVals, MaxPairs) }

notStr == <<heapVars, eqVars, quoteVars, unquoteVars, pathVars>>

Construct ==
    /\ ~ q.some
    /\ q' = Some(new(<<>>, src))
    /\ UNCHANGED <<src, text, q2, notStr>>

Render ==
    /\ q.some /\ ~ text.some
    /\ text' = Some(to_string(q.val))
    /\ UNCHANGED <<src, q, q2, notStr>>

Reparse ==
    /\ text.some /\ ~ q2.some
    /\ q2' = Some(new(<<>>, PyStr(text.val)))
    /\ UNCHANGED <<src, q, text, notStr>>

InitStr ==
    /\ src \in StrSources
    /\ q = None /\ text = None /\ q2 = None
    /\ HeapIdle /\ EqIdle /\ QuoteIdle /\ UnquoteIdle /\ PathIdle

NextStr == Construct \/ Render \/ Reparse

SpecStr == InitStr /\ [][NextStr]_vars

----------------------------------------------------------------------------
(* Comparison of two instances.                                            *)

CallEq ==
    /\ ~ equal.some
    /\ equal' = Some(__eq__(lhs, rhs))
    /\ UNCHANGED <<lhs, rhs, heapVars, strVars, quoteVars, unquoteVars, pathVars>>

InitEq ==
    /\ \E a \in PairLists : lhs = new(<<>>, a)
    /\ \E b \in PairLists : rhs = new(<<>>, b)
    /\ equal = None
    /\ HeapIdle /\ StrIdle /\ QuoteIdle /\ UnquoteIdle /\ PathIdle

NextEq == CallEq

SpecEq == InitEq /\ [][NextEq]_vars

----------------------------------------------------------------------------
(* quote.                                                                  *)

QuoteAlphabet == { "%", "2", "F", "a", "b", " ", "/" }
SafeSets == { <<>>, <<"/">>, <<"%", "/">> }

CallQuote ==
    /\ ~ quoted.some
    /\ quoted' = Some(quote(string, safe))
    /\ UNCHANGED <<string, safe, heapVars, strVars, eqVars, unquoteVars, pathVars>>

InitQuote ==
    /\ string \in StringsUpTo(QuoteAlphabet, MaxQuoteLen)
    /\ safe \in SafeSets
    /\ quoted = None
    /\ HeapIdle /\ StrIdle /\ EqIdle /\ UnquoteIdle /\ PathIdle

NextQuote == CallQuote

SpecQuote == InitQuote /\ [][NextQuote]_vars

----------------------------------------------------------------------------
(* unquote.                                                                *)

UnquoteAlphabet == { "\"", "'", "a" }

CallUnquote ==
    /\ ~ unquoted.some
    /\ unquoted' = Some(unquote(value))
    /\ UNCHANGED <<value, heapVars, strVars, eqVars, quoteVars, pathVars>>

InitUnquote ==
    /\ value \in StringsUpTo(UnquoteAlphabet, MaxUnquoteLen)
    /\ unquoted = None
    /\ HeapIdle /\ StrIdle /\ EqIdle /\ QuoteIdle /\ PathIdle

NextUnquote == CallUnquote

SpecUnquote == InitUnquote /\ [][NextUnquote]_vars

----------------------------------------------------------------------------
(* normalize_path, applied once and then to its own result.                *)

PathAlphabet == { "/", ".", "a" }

PathExamples ==
    { <<"/", "a", "/", ".", "/", "b", "/", ".", ".", "/", "c">>,
      <<"/", ".", ".", "/", "a">>,
      <<"a", "/", "b">> }

Normalize ==
    /\ ~ normalized.some
    /\ normalized' = Some(normalize_path(path))
    /\ UNCHANGED <<path, renormalized, heapVars, strVars, eqVars, quoteVars, unquoteVars>>

Renormalize ==
    /\ normalized.some /\ ~ renormalized.some
    /\ renormalized' = Some(normalize_path(normalized.val))
    /\ UNCHANGED <<path, normalized, heapVars, strVars, eqVars, quoteVars, unquoteVars>>

InitPath ==
    /\ path \in StringsUpTo(PathAlphabet, MaxPathLen) \cup PathExamples
    /\ normalized = None /\ renormalized = None
    /\ HeapIdle /\ StrIdle /\ EqIdle /\ QuoteIdle /\ UnquoteIdle

NextPath == Normalize \/ Renormalize

SpecPath == InitPath /\ [][NextPath]_vars

----------------------------------------------------------------------------
(* Properties of the mutators (checked under Spec).                        *)

Mutators == { "set", "add", "remove", "merge" }

\* What the instance returned by the last call must show of the call.
CarriesChange(call, receiver, result) ==
    /\ call.op = "set" => get_list(result, call.key) = << primitive_value_to_str(call.arg) >>
    /\ call.op = "add" =>
         get_list(result, call.key)
           = Append(get_list(receiver, call.key), primitive_value_to_str(call.arg))
    /\ call.op = "remove" => ~ __contains__(result, call.key)
    /\ call.op \in { "set", "add", "remove" } =>
         \A k \in Keys \ { call.key } : get_list(result, k) = get_list(receiver, k)

\* C1: set, add, remove and merge never modify their receiver: across every
\* call, keys(), multi_items() and get_list(k) of every instance alive before the
\* call (the receiver, and every instance it was derived from or that was derived
\* from it) are what they were, and the call returns a separate new instance
\* that carries the change.
C1_ReceiverNeverModified ==
    [][ /\ \A i \in 1..Len(objs) :
             /\ i <= Len(objs')
             /\ keys(objs'[i]) = keys(objs[i])
             /\ multi_items(objs'[i]) = multi_items(objs[i])
             /\ \A k \in Keys : get_list(objs'[i], k) = get_list(objs[i], k)
        /\ last'.op \in Mutators =>
             /\ Len(objs') = Len(objs) + 1
             /\ last'.ret = Len(objs')
             /\ last'.self \in 1..Len(objs)
             /\ CarriesChange(last', objs[last'.self], objs'[last'.ret])
      ]_vars

\* C1 witness: a mutator was called on an instance that was itself derived from
\* the first one, and the instance it returned differs from its receiver.
C1_Witness ==
    /\ last.op \in Mutators
    /\ last.self > 1
    /\ objs[last.ret] # objs[last.self]
    /\ objs[last.self] # objs[1]

\* C4: r = q.merge(other) is a per-key overwrite that keeps positions: every key
\* of q keeps its position in r.keys(); a key in both has other's list (not a
\* concatenation); a key only in q keeps q's list; the keys only in other follow
\* all keys of q, in other's key order, with other's lists.
C4_MergeOverwritesInPlace ==
    (last.op = "merge" /\ last.arg.kind # "none") =>
        LET receiver == objs[last.self]
            other == from_pyany(objs, last.arg)
            r == objs[last.ret]
            fresh == SelectSeq(keys(other), LAMBDA k : ~ __contains__(receiver, k))
        IN  /\ Len(keys(r)) = Len(keys(receiver)) + Len(fresh)
            /\ \A n \in 1..Len(keys(receiver)) : keys(r)[n] = keys(receiver)[n]
            /\ \A n \in 1..Len(fresh) : keys(r)[Len(keys(receiver)) + n] = fresh[n]
            /\ \A k \in Keys :
                 /\ __contains__(other, k) => get_list(r, k) = get_list(other, k)
                 /\ (__contains__(receiver, k) /\ ~ __contains__(other, k)) =>
                      get_list(r, k) = get_list(receiver, k)

\* C4 witness: {a:[1], b:[2]}.merge([(a, 9)]) has keys [a, b] and a -> [9].
C4_Witness ==
    /\ last.op = "merge"
    /\ last.arg = PyList(<< << <<"a">>, <<"9">> >> >>)
    /\ multi_items(objs[last.self]) = << << <<"a">>, <<"1">> >>, << <<"b">>, <<"2">> >> >>
    /\ keys(objs[last.ret]) = << <<"a">>, <<"b">> >>
    /\ get_list(objs[last.ret], <<"a">>) = << <<"9">> >>
    /\ get_list(objs[last.ret], <<"b">>) = << <<"2">> >>

\* C6: values() has exactly one entry per distinct key, in key order: for every
\* instance reachable from any construction source by set/add/remove/merge,
\* values() is as long as keys() and its n-th element is the first value of the
\* n-th key.
C6_ValuesOnePerKey ==
    \A i \in 1..Len(objs) :
        /\ Len(values(objs[i])) = Len(keys(objs[i]))
        /\ \A n \in 1..Len(keys(objs[i])) :
             /\ get_list(objs[i], keys(objs[i])[n]) # <<>>
             /\ values(objs[i])[n] = Head(get_list(objs[i], keys(objs[i])[n]))

----------------------------------------------------------------------------
(* Properties of the key iterator (checked under SpecIter).                *)

\* C10: a key iterator is a one-shot cursor over a private snapshot: an iterator
\* requested from an instance with keys k1..kn returns k1, ..., kn in that order
\* on its first n calls of next and signals exhaustion on every later call,
\* whatever other iterators of the instance are advanced and whatever mutators
\* are called in between; the instance's keys stay what they were when the
\* iterator was requested, and an iterator that has returned nothing yet
\* starts from k1.
C10_IteratorIsPrivateSnapshot ==
    \A t \in 1..Len(iters) :
        LET ks == keys(objs[iters[t].of])
        IN  /\ iters[t].made = ks
            /\ \A n \in 1..Len(iters[t].out) :
                 iters[t].out[n] = IF n <= Len(ks) THEN Some(ks[n]) ELSE None

\* C10 witness: two iterators of the same two-key instance, the first exhausted
\* and asked again, the second requested afterwards and advanced once, with a
\* mutator called on that instance.
C10_Witness ==
    /\ Len(iters) = 2
    /\ iters[1].of = iters[2].of
    /\ Len(iters[1].made) = 2
    /\ Len(iters[1].out) = 4
    /\ iters[1].out[4] = None
    /\ iters[2].out = << Some(iters[2].made[1]) >>
    /\ last.op \in Mutators
    /\ last.self = iters[1].of
    /\ keys(objs[last.ret]) # keys(objs[last.self])

----------------------------------------------------------------------------
(* Properties of parsing and rendering (checked under SpecStr).            *)

\* The position of the first "=" of piece (which holds one).
FirstEq(piece) == CHOOSE n \in 1..Len(piece) : piece[n] = "=" /\ \A m \in 1..(n - 1) : piece[m] # "="

\* A pair split on its first "=" only.
SplitOnFirstEq(piece) ==
    IF Contains(piece, "=")
    THEN << SubSeq(piece, 1, FirstEq(piece) - 1), SubSeq(piece, FirstEq(piece) + 1, Len(piece)) >>
    ELSE << piece, <<>> >>

\* The (key, value) pairs a query string stands for, in encounter order.
PairsOf(s) ==
    IF s = <<>> THEN <<>>
    ELSE [n \in 1..Len(Split(s, "&")) |-> SplitOnFirstEq(Split(s, "&")[n])]

\* The values of the pairs with key k, in order.
ValuesFor(pairs, k) ==
    LET mine == SelectSeq(pairs, LAMBDA pr : pr[1] = k)
    IN  [n \in 1..Len(mine) |-> mine[n][2]]

\* C2: a QueryParams built from a query string holds every "&"-separated pair
\* of the string, split on its first "=" only (no "=": the value is empty),
\* under its key in encounter order; no pair is dropped.
C2_ParseSplitsOnFirstEq ==
    (src.kind = "str" /\ q.some) =>
        /\ Len(multi_items(q.val)) = Len(PairsOf(src.val))
        /\ \A n \in 1..Len(PairsOf(src.val)) :
             get_list(q.val, PairsOf(src.val)[n][1])
               = ValuesFor(PairsOf(src.val), PairsOf(src.val)[n][1])

Ambiguous == { "&", "=", "%", "+" }

NoAmbiguousChar(pairs) ==
    \A n \in 1..Len(pairs) : \A c \in Ambiguous :
        ~ Contains(pairs[n][1], c) /\ ~ Contains(pairs[n][2], c)

\* C3: for a QueryParams built from a list of pairs whose keys and values hold
\* none of "&", "=", "%", "+", parsing its string rendering gives an instance
\* equal to it.
C3_StringRoundTrip ==
    (src.kind = "list" /\ q2.some /\ NoAmbiguousChar(src.val)) => __eq__(q2.val, q.val)

----------------------------------------------------------------------------
(* Properties of equality (checked under SpecEq).                          *)

\* The multiset of the elements of a sequence.
BagOfSeq(xs) ==
    [x \in { xs[n] : n \in 1..Len(xs) } |-> Cardinality({ n \in 1..Len(xs) : xs[n] = x })]

\* C5: a == b holds if and only if the flattened (key, value) pairs of a and of
\* b are the same multiset, whatever the order of the keys and of the values of
\* a key; instances that differ in the multiplicity of a pair are unequal.
C5_EqualityIsMultiset ==
    equal.some =>
        (equal.val <=> BagOfSeq(multi_items(lhs)) = BagOfSeq(multi_items(rhs)))

\* C5 witness: [(a,1),(b,2)] and [(b,2),(a,1)] were compared and found equal.
C5_Witness ==
    /\ equal.some /\ equal.val
    /\ multi_items(lhs) = << << <<"a">>, <<"1">> >>, << <<"b">>, <<"2">> >> >>
    /\ multi_items(rhs) = << << <<"b">>, <<"2">> >>, << <<"a">>, <<"1">> >> >>

----------------------------------------------------------------------------
(* Properties of quote (checked under SpecQuote).                          *)

\* Letters, digits and "-._~".
Unreserved(c) == IsUpper(c) \/ IsLower(c) \/ IsDigit(c) \/ c \in { "-", ".", "_", "~" }

\* %XX, in uppercase hex, of the bytes of the alphabet that are not unreserved.
Escape(c) ==
    CASE c = " " -> <<"%", "2", "0">>
      [] c = "%" -> <<"%", "2", "5">>
      [] c = "/" -> <<"%", "2", "F">>

IsHex(c) ==
    c \in { "0", "1", "2", "3", "4", "5", "6", "7", "8", "9",
            "A", "B", "C", "D", "E", "F", "a", "b", "c", "d", "e", "f" }

RECURSIVE Quoted(_, _)
\* The left-to-right reading of quote: a "%" followed by two hex digits is
\* copied with them, any other byte is kept or escaped on its own.
Quoted(s, safeChars) ==
    IF s = <<>> THEN <<>>
    ELSE IF Len(s) >= 3 /\ s[1] = "%" /\ IsHex(s[2]) /\ IsHex(s[3])
    THEN SubSeq(s, 1, 3) \o Quoted(SubSeq(s, 4, Len(s)), safeChars)
    ELSE (IF Unreserved(s[1]) \/ Contains(safeChars, s[1]) THEN << s[1] >> ELSE Escape(s[1]))
         \o Quoted(Tail(s), safeChars)

\* C7: quote copies every percent-triplet met left to right verbatim and emits
\* every other byte (a "%" not followed by two hex digits included) literally
\* iff it is a letter, a digit, one of "-._~" or listed in safe, and as %XX in
\* uppercase hex otherwise; quote("%2F", "") = "%2F", quote("a b", "") = "a%20b".
C7_QuoteKeepsTriplets ==
    quoted.some =>
        /\ quoted.val = Quoted(string, safe)
        /\ (string = <<"%", "2", "F">> /\ safe = <<>>) => quoted.val = <<"%", "2", "F">>
        /\ (string = <<"a", " ", "b">> /\ safe = <<>>) =>
             quoted.val = <<"a", "%", "2", "0", "b">>

\* C7 witness: in "%%2b" the first "%" was escaped and the triplet after it
\* copied in its own case.
C7_Witness ==
    /\ string = <<"%", "%", "2", "b">>
    /\ quoted = Some(<<"%", "2", "5", "%", "2", "b">>)

----------------------------------------------------------------------------
(* Properties of unquote (checked under SpecUnquote).                      *)

BothEnds(v, c) == Len(v) >= 1 /\ v[1] = c /\ v[Len(v)] = c

\* C8: unquote never fails, on any string (of length 0 and 1 too): with a leading
\* and a trailing double quote, or a leading and a trailing single quote, the
\* result is the input less one character at each end; otherwise it is the input.
C8_UnquoteTotal ==
    unquoted.some =>
        /\ unquoted.val.st = "ok"
        /\ IF BothEnds(value, "\"") \/ BothEnds(value, "'")
           THEN /\ Len(unquoted.val.val) = Len(value) - 2
                /\ unquoted.val.val = SubSeq(value, 2, Len(value) - 1)
           ELSE unquoted.val.val = value

----------------------------------------------------------------------------
(* Properties of normalize_path (checked under SpecPath).                  *)

\* C9: normalize_path is idempotent: normalizing a normalized path changes
\* nothing, for absolute and relative paths with any mix of ".", "..", empty
\* and ordinary segments.
C9_NormalizeIdempotent ==
    renormalized.some => renormalized.val = normalized.val

\* C9 witness: "/a/./b/../c" was normalized to "/a/c", and that again to "/a/c".
C9_Witness ==
    /\ path = <<"/", "a", "/", ".", "/", "b", "/", ".", ".", "/", "c">>
    /\ normalized = Some(<<"/", "a", "/", "c">>)
    /\ renormalized = Some(<<"/", "a", "/", "c">>)

====
